---- MODULE Spec2Model ----
(***************************************************************************)
(* Model of backend/main.py: the /upload and /ask handlers, the process-   *)
(* wide registry document_stores and the error classifier handle_error.    *)
(*                                                                         *)
(* Each request is a process with a program counter; one step is one       *)
(* statement (or one external call) of its handler.  Serial execution of   *)
(* the handlers on one event loop is among the interleavings.              *)
(*                                                                         *)
(* Error messages are sequences of words, so that the substring tests of   *)
(* handle_error ("PDF" in msg, "openai" in msg.lower()) are computed.      *)
(***************************************************************************)
EXTENDS Integers, Sequences, FiniteSets, TLC

\* ---------------------------------------------------------------- bounds
NReq == 2          \* number of requests in a run
MaxPages == 2      \* pages of an uploaded PDF
PageLen == 500     \* characters of text on a page that has text

\* ------------------------------------------------------ program constants
chunk_size == 1000
chunk_overlap == 200
K == 4

Req == 1..NReq
Ids == 1..NReq               \* values uuid.uuid4() can return
NoId == 0

\* ------------------------------------------------------------- file names
\* a file name is a sequence of name parts; the last part is the extension
Filenames == { <<"doc", ".pdf">>, <<"doc", ".PDF">>, <<"doc", ".txt">>,
               <<"doc", ".pdf", ".exe">> }
NoName == <<>>

ContainsPart(name, suffix) == \E i \in 1..Len(name) : name[i] = suffix

endswith(name, suffix) == Len(name) > 0 /\ name[Len(name)] = suffix

\* --------------------------------------------------------------- messages
Contains(msg, w) == \E i \in 1..Len(msg) : msg[i] = w

LowerWord(w) ==
    CASE w = "OpenAI" -> "openai"
      [] w = "PDF"    -> "pdf"
      [] w = "Failed" -> "failed"
      [] w = "Error"  -> "error"
      [] w = "The"    -> "the"
      [] w = "No"     -> "no"
      [] OTHER        -> w

lower(msg) == [i \in 1..Len(msg) |-> LowerWord(msg[i])]

\* messages of the failures the external capabilities raise
SaveErrorMsg == <<"No", "space", "left", "on", "device">>
ExtractErrors == { <<"cannot", "open", "broken", "document">> }
EmbedErrors == { <<"Error", "communicating", "with", "OpenAI">>,
                 <<"The", "server", "is", "overloaded">> }
EmptyIndexMsg == <<"list", "index", "out", "of", "range">>

\* ------------------------------------------------------------- exceptions
NoExc == [type |-> "None", status_code |-> 0, detail |-> <<>>,
          msg |-> <<>>, context |-> "None"]

HTTPException(status, detail) ==
    [type |-> "HTTPException", status_code |-> status, detail |-> detail,
     msg |-> <<>>, context |-> "None"]

OSError(m) ==
    [type |-> "OSError", status_code |-> 0, detail |-> <<>>,
     msg |-> m, context |-> "None"]

\* raise Exception(f"<prefix>{str(e)}") inside an except block: a plain
\* Exception whose message is the prefix followed by the message of e, and
\* whose __context__ is e
Wrapped(prefix, m, origin) ==
    [type |-> "Exception", status_code |-> 0, detail |-> <<>>,
     msg |-> prefix \o m, context |-> origin]

ExtractPrefix == <<"Failed", "to", "extract", "text", "from", "PDF:">>
BuildPrefix == <<"Failed", "to", "process", "document:">>
AnswerPrefix == <<"Failed", "to", "generate", "answer:">>

\* "PDF" in error_msg: the word "PDF:" of the extraction prefix contains it
HasPDF(msg) == Contains(msg, "PDF") \/ Contains(msg, "PDF:")

NoResp == [status_code |-> 0, detail |-> <<>>, hits |-> 0]

Response(status, detail) ==
    [status_code |-> status, detail |-> detail, hits |-> 0]

handle_error_reclassify(error) ==
    IF error.type \in {"OSError"}
    THEN Response(500, <<"File", "operation", "failed:">> \o error.msg)
    ELSE IF HasPDF(error.msg)
    THEN Response(400, <<"PDF", "processing", "error:">> \o error.msg)
    ELSE IF Contains(lower(error.msg), "openai")
    THEN Response(503, <<"AI", "service", "error:">> \o error.msg)
    ELSE Response(500, <<"Unexpected", "error:">> \o error.msg)

handle_error(error) ==
    IF error.type = "HTTPException"
    THEN Response(error.status_code, error.detail)
    ELSE IF error.type \in {"OSError"}
    THEN Response(500, <<"File", "operation", "failed:">> \o error.msg)
    ELSE IF HasPDF(error.msg)
    THEN Response(400, <<"PDF", "processing", "error:">> \o error.msg)
    ELSE IF Contains(lower(error.msg), "openai")
    THEN Response(503, <<"AI", "service", "error:">> \o error.msg)
    ELSE Response(500, <<"Unexpected", "error:">> \o error.msg)

\* ------------------------------------------------------------------- text
\* the pages of a PDF, each given by the number of characters of its text
PageSeqs == UNION { [1..n -> {0, PageLen}] : n \in 1..MaxPages }

RECURSIVE SumSeq(_)
SumSeq(s) == IF s = <<>> THEN 0 ELSE s[1] + SumSeq(Tail(s))

NoText == [len |-> -1, ink |-> -1]

\* " ".join(page.get_text() for page in doc): len is the length of the
\* joined string, ink the number of its characters that are not separators
JoinPages(pages) ==
    [len |-> SumSeq(pages) + (Len(pages) - 1), ink |-> SumSeq(pages)]

CeilDiv(a, b) == (a + b - 1) \div b

\* number of chunks of split_text: none for text that is blank, one for
\* text within chunk_size, else windows of chunk_size that start every
\* chunk_size - chunk_overlap characters
split_text(text) ==
    IF text.ink = 0 THEN 0
    ELSE IF text.len <= chunk_size THEN 1
    ELSE 1 + CeilDiv(text.len - chunk_size, chunk_size - chunk_overlap)

\* ------------------------------------------------------------------ index
NoStore == [size |-> -1, embedded |-> -1]

\* the index under construction by FAISS.from_texts: size chunks, of which
\* embedded have their vectors
NewStore(n) == [size |-> n, embedded |-> 0]

from_texts_done_early(vs) == vs.embedded >= 1

from_texts_done(vs) == vs.embedded = vs.size

Min(a, b) == IF a < b THEN a ELSE b

similarity_search(vs, k) == Min(k, vs.size)

\* --------------------------------------------------------------- registry
register_alone(stores, id, vs) == [d \in {id} |-> vs]

\* document_stores[doc_id] = vector_store
register(stores, id, vs) ==
    [d \in DOMAIN stores \cup {id} |-> IF d = id THEN vs ELSE stores[d]]

save_nothing(fs, id) == fs

\* open(file_path, "wb") creates uploads/<doc_id>.pdf
save_raw_file(fs, id) == fs \cup {id}

VARIABLES
    document_stores,  \* the registry: document id -> index
    files,            \* ids with a file uploads/<id>.pdf
    issued,           \* ids uuid4 has returned
    pc,               \* position of each request in its handler
    filename,         \* file.filename of an upload
    doc_id,           \* doc_id of an upload, request.document_id of an ask
    text,             \* extracted text of an upload
    texts,            \* number of chunks of an upload
    vector_store,     \* local variable vector_store of the handler
    called,           \* the request invoked the embedding capability
    raised,           \* the exception the handler caught at its outer except
    resp              \* the response of the request

vars == <<document_stores, files, issued, pc, filename, doc_id, text, texts,
          vector_store, called, raised, resp>>

Init ==
    /\ document_stores = [d \in {} |-> NoStore]
    /\ files = {}
    /\ issued = {}
    /\ pc = [r \in Req |-> "idle"]
    /\ filename = [r \in Req |-> NoName]
    /\ doc_id = [r \in Req |-> NoId]
    /\ text = [r \in Req |-> NoText]
    /\ texts = [r \in Req |-> -1]
    /\ vector_store = [r \in Req |-> NoStore]
    /\ called = [r \in Req |-> FALSE]
    /\ raised = [r \in Req |-> NoExc]
    /\ resp = [r \in Req |-> NoResp]

\* the outer except of a handler: classify the exception and answer with it
Fail(r, error) ==
    /\ pc' = [pc EXCEPT ![r] = IF pc[r] \in {"a_lookup", "a_search"}
                               THEN "a_failed" ELSE "u_failed"]
    /\ raised' = [raised EXCEPT ![r] = error]
    /\ resp' = [resp EXCEPT ![r] = handle_error(error)]

\* ----------------------------------------------------------------- upload
UploadRequest(r) ==
    /\ pc[r] = "idle"
    /\ \E f \in Filenames : filename' = [filename EXCEPT ![r] = f]
    /\ pc' = [pc EXCEPT ![r] = "u_validate"]
    /\ UNCHANGED <<document_stores, files, issued, doc_id, text, texts,
                   vector_store, called, raised, resp>>

Validate(r) ==
    /\ pc[r] = "u_validate"
    /\ IF ~endswith(filename[r], ".pdf")
       THEN Fail(r, HTTPException(400, <<"Only", "PDF", "files", "are", "allowed">>))
       ELSE /\ pc' = [pc EXCEPT ![r] = "u_uuid"]
            /\ UNCHANGED <<raised, resp>>
    /\ UNCHANGED <<document_stores, files, issued, filename, doc_id, text,
                   texts, vector_store, called>>

\* uuid.uuid4() under the uniqueness it is used for: an id not yet issued
GenId(r) ==
    /\ pc[r] = "u_uuid"
    /\ \E u \in Ids \ issued :
        /\ doc_id' = [doc_id EXCEPT ![r] = u]
        /\ issued' = issued \cup {u}
    /\ pc' = [pc EXCEPT ![r] = "u_save"]
    /\ UNCHANGED <<document_stores, files, filename, text, texts,
                   vector_store, called, raised, resp>>

\* uuid.uuid4() as a random draw: any id, one issued before included
GenIdAny(r) ==
    /\ pc[r] = "u_uuid"
    /\ \E u \in Ids :
        /\ doc_id' = [doc_id EXCEPT ![r] = u]
        /\ issued' = issued \cup {u}
    /\ pc' = [pc EXCEPT ![r] = "u_save"]
    /\ UNCHANGED <<document_stores, files, filename, text, texts,
                   vector_store, called, raised, resp>>

SaveFile(r) ==
    /\ pc[r] = "u_save"
    /\ \/ /\ files' = save_raw_file(files, doc_id[r])
          /\ pc' = [pc EXCEPT ![r] = "u_extract"]
          /\ UNCHANGED <<raised, resp>>
       \/ \* open fails: no file
          /\ files' = files
          /\ Fail(r, OSError(SaveErrorMsg))
       \/ \* copyfileobj fails: the file exists, incomplete
          /\ files' = save_raw_file(files, doc_id[r])
          /\ Fail(r, OSError(SaveErrorMsg))
    /\ UNCHANGED <<document_stores, issued, filename, doc_id, text, texts,
                   vector_store, called>>

Extract(r) ==
    /\ pc[r] = "u_extract"
    /\ \/ \E pages \in PageSeqs :
            /\ text' = [text EXCEPT ![r] = JoinPages(pages)]
            /\ pc' = [pc EXCEPT ![r] = "u_split"]
            /\ UNCHANGED <<raised, resp>>
       \/ \E m \in ExtractErrors :
            /\ Fail(r, Wrapped(ExtractPrefix, m, "FitzError"))
            /\ UNCHANGED text
    /\ UNCHANGED <<document_stores, files, issued, filename, doc_id, texts,
                   vector_store, called>>

Split(r) ==
    /\ pc[r] = "u_split"
    /\ texts' = [texts EXCEPT ![r] = split_text(text[r])]
    /\ pc' = [pc EXCEPT ![r] = "u_build"]
    /\ UNCHANGED <<document_stores, files, issued, filename, doc_id, text,
                   vector_store, called, raised, resp>>

\* the index FAISS.from_texts is constructing for request r
Building(r) ==
    IF vector_store[r] = NoStore THEN NewStore(texts[r]) ELSE vector_store[r]

\* a build that makes the index visible in the registry while it embeds
BuildEmbedVisible(r) ==
    /\ pc[r] = "u_build"
    /\ IF texts[r] = 0
       THEN /\ Fail(r, Wrapped(BuildPrefix, EmptyIndexMsg, "IndexError"))
            /\ UNCHANGED <<vector_store, called, document_stores>>
       ELSE /\ called' = [called EXCEPT ![r] = TRUE]
            /\ document_stores' = register(document_stores, doc_id[r], Building(r))
            /\ \/ LET vs == [Building(r) EXCEPT !.embedded = @ + 1] IN
                    /\ vector_store' = [vector_store EXCEPT ![r] = vs]
                    /\ pc' = [pc EXCEPT ![r] = IF from_texts_done(vs)
                                               THEN "u_register" ELSE "u_build"]
                    /\ UNCHANGED <<raised, resp>>
               \/ \E m \in EmbedErrors :
                    /\ Fail(r, Wrapped(BuildPrefix, m, "OpenAIError"))
                    /\ vector_store' = [vector_store EXCEPT ![r] = Building(r)]
    /\ UNCHANGED <<files, issued, filename, doc_id, text, texts>>

\* FAISS.from_texts(texts, cached_embeddings): embeds the chunks one after
\* the other; fails on an empty chunk list and on an embedding failure
BuildEmbed(r) ==
    /\ pc[r] = "u_build"
    /\ IF texts[r] = 0
       THEN /\ Fail(r, Wrapped(BuildPrefix, EmptyIndexMsg, "IndexError"))
            /\ UNCHANGED <<vector_store, called>>
       ELSE /\ called' = [called EXCEPT ![r] = TRUE]
            /\ \/ LET vs == [Building(r) EXCEPT !.embedded = @ + 1] IN
                    /\ vector_store' = [vector_store EXCEPT ![r] = vs]
                    /\ pc' = [pc EXCEPT ![r] = IF from_texts_done(vs)
                                               THEN "u_register" ELSE "u_build"]
                    /\ UNCHANGED <<raised, resp>>
               \/ \E m \in EmbedErrors :
                    /\ Fail(r, Wrapped(BuildPrefix, m, "OpenAIError"))
                    /\ vector_store' = [vector_store EXCEPT ![r] = Building(r)]
    /\ UNCHANGED <<document_stores, files, issued, filename, doc_id, text,
                   texts>>

\* document_stores[doc_id] = vector_store, then the response
Register(r) ==
    /\ pc[r] = "u_register"
    /\ document_stores' = register(document_stores, doc_id[r], vector_store[r])
    /\ pc' = [pc EXCEPT ![r] = "u_done"]
    /\ resp' = [resp EXCEPT ![r] = Response(200, <<"id", "name", "timestamp">>)]
    /\ UNCHANGED <<files, issued, filename, doc_id, text, texts, vector_store,
                   called, raised>>

\* -------------------------------------------------------------------- ask
AskRequest(r) ==
    /\ pc[r] = "idle"
    /\ \E d \in Ids : doc_id' = [doc_id EXCEPT ![r] = d]
    /\ pc' = [pc EXCEPT ![r] = "a_lookup"]
    /\ UNCHANGED <<document_stores, files, issued, filename, text, texts,
                   vector_store, called, raised, resp>>

\* a lookup that creates a missing entry, as a defaultdict would
AskLookupCreating(r) ==
    /\ pc[r] = "a_lookup"
    /\ IF doc_id[r] \notin DOMAIN document_stores
       THEN /\ document_stores' = register(document_stores, doc_id[r], NewStore(0))
            /\ Fail(r, HTTPException(404, <<"Document", "not", "found">>))
            /\ UNCHANGED vector_store
       ELSE /\ vector_store' = [vector_store EXCEPT ![r] = document_stores[doc_id[r]]]
            /\ pc' = [pc EXCEPT ![r] = "a_search"]
            /\ UNCHANGED <<document_stores, raised, resp>>
    /\ UNCHANGED <<files, issued, filename, doc_id, text, texts, called>>

AskLookup(r) ==
    /\ pc[r] = "a_lookup"
    /\ IF doc_id[r] \notin DOMAIN document_stores
       THEN /\ Fail(r, HTTPException(404, <<"Document", "not", "found">>))
            /\ UNCHANGED vector_store
       ELSE /\ vector_store' = [vector_store EXCEPT ![r] = document_stores[doc_id[r]]]
            /\ pc' = [pc EXCEPT ![r] = "a_search"]
            /\ UNCHANGED <<raised, resp>>
    /\ UNCHANGED <<document_stores, files, issued, filename, doc_id, text,
                   texts, called>>

\* vector_store.similarity_search(request.question, k=4): embeds the
\* question, then searches the index
AskSearch(r) ==
    /\ pc[r] = "a_search"
    /\ called' = [called EXCEPT ![r] = TRUE]
    /\ \/ /\ pc' = [pc EXCEPT ![r] = "a_done"]
          /\ resp' = [resp EXCEPT ![r] =
                        [status_code |-> 200,
                         detail |-> <<"id", "question", "answer", "timestamp">>,
                         hits |-> similarity_search(vector_store[r], K)]]
          /\ UNCHANGED raised
       \/ \E m \in EmbedErrors :
            Fail(r, Wrapped(AnswerPrefix, m, "OpenAIError"))
    /\ UNCHANGED <<document_stores, files, issued, filename, doc_id, text,
                   texts, vector_store>>

\* ---------------------------------------------------------- specification
Step(r) ==
    \/ UploadRequest(r)
    \/ Validate(r)
    \/ SaveFile(r)
    \/ Extract(r)
    \/ Split(r)
    \/ BuildEmbed(r)
    \/ Register(r)
    \/ AskRequest(r)
    \/ AskLookup(r)
    \/ AskSearch(r)

Next == \E r \in Req : GenId(r) \/ Step(r)

Spec == Init /\ [][Next]_vars

\* the same program with uuid4 as a random draw
NextAny == \E r \in Req : GenIdAny(r) \/ Step(r)

SpecAny == Init /\ [][NextAny]_vars

TypeOK ==
    /\ DOMAIN document_stores \subseteq Ids
    /\ files \subseteq Ids
    /\ issued \subseteq Ids
    /\ \A r \in Req : doc_id[r] \in Ids \cup {NoId}

\* ------------------------------------------------------------- properties
UploadRunning == {"u_uuid", "u_save", "u_extract", "u_split", "u_build",
                  "u_register"}
AskAnswered == {"a_search", "a_done", "a_failed"}
AskPositions == {"a_lookup", "a_search", "a_done", "a_failed"}

Complete(vs) == vs.size >= 1 /\ vs.embedded = vs.size

NotFound == [status_code |-> 404, detail |-> <<"Document", "not", "found">>,
             hits |-> 0]

\* C1: a document id is a key of document_stores only if the index build of
\* its upload has completed (every chunk embedded, upload past the build);
\* an ask never holds a partially built index, and an ask that looked up the
\* id of an upload still in progress was answered 404 "Document not found".
C1_VisibleOnlyWhenBuilt ==
    /\ \A d \in DOMAIN document_stores :
         /\ Complete(document_stores[d])
         /\ \E u \in Req : pc[u] = "u_done" /\ doc_id[u] = d
    /\ \A a \in Req : pc[a] \in {"a_search", "a_done"} => Complete(vector_store[a])
    /\ \A a, u \in Req :
         (pc[u] \in UploadRunning /\ pc[a] \in AskAnswered /\ doc_id[a] = doc_id[u])
            => (pc[a] = "a_failed" /\ resp[a] = NotFound)

\* an ask was answered 404 for the id of an upload whose index is part built
C1_Witness ==
    \E a, u \in Req :
        /\ pc[u] = "u_build" /\ vector_store[u].size = 2
        /\ vector_store[u].embedded = 1
        /\ pc[a] = "a_failed" /\ doc_id[a] = doc_id[u] /\ resp[a] = NotFound

\* C2: an upload that fails at any step from the file save to the index
\* build leaves document_stores as it was at the failing step, its id is
\* never a key of document_stores, and an ask that looked that id up was
\* answered 404 "Document not found".
C2_FailedUploadNotRegistered ==
    /\ [](\A u \in Req : pc[u] = "u_failed" /\ doc_id[u] # NoId =>
            /\ doc_id[u] \notin DOMAIN document_stores
            /\ \A a \in Req : (pc[a] \in AskAnswered /\ doc_id[a] = doc_id[u])
                                 => (pc[a] = "a_failed" /\ resp[a] = NotFound))
    /\ [][\A u \in Req : (pc[u] # "u_failed" /\ pc'[u] = "u_failed")
            => document_stores' = document_stores]_vars

\* an upload failed in the embedding of its second chunk, and a later ask
\* for its id was answered
C2_Witness ==
    \E a, u \in Req :
        /\ pc[u] = "u_failed" /\ raised[u].context = "OpenAIError"
        /\ vector_store[u].embedded = 1
        /\ pc[a] = "a_failed" /\ doc_id[a] = doc_id[u]

\* C3: an upload whose extracted text is empty fails with a 400-class
\* status and registers no document id.
C3_EmptyTextRejected400 ==
    \A u \in Req : (pc[u] \in {"u_failed", "u_done"} /\ text[u] # NoText /\ text[u].ink = 0)
        => /\ pc[u] = "u_failed"
           /\ resp[u].status_code = 400
           /\ doc_id[u] \notin DOMAIN document_stores

\* C4: an ask whose document_id is not a key of document_stores is answered
\* 404 "Document not found", without any call of the embedding capability
\* and with document_stores unchanged.
C4_UnknownIdNotFound ==
    [][\A a \in Req :
         (pc[a] = "a_lookup" /\ pc'[a] # "a_lookup"
            /\ doc_id[a] \notin DOMAIN document_stores)
         => /\ pc'[a] = "a_failed"
            /\ resp'[a] = NotFound
            /\ ~called'[a]
            /\ vector_store'[a] = NoStore
            /\ document_stores' = document_stores]_vars

\* an ask for an id that no upload registered was answered 404
C4_Witness ==
    \E a \in Req :
        /\ pc[a] = "a_failed" /\ raised[a].type = "HTTPException"
        /\ doc_id[a] \notin DOMAIN document_stores /\ resp[a] = NotFound

\* C5: an upload whose file name does not end in .pdf is answered 400
\* "Only PDF files are allowed" at its first step: no id is generated, no
\* file written, nothing extracted, chunked or embedded, and the registry,
\* the stored files and the issued ids are unchanged.
C5_NonPdfRejected ==
    /\ [](\A u \in Req :
            (filename[u] # NoName /\ filename[u][Len(filename[u])] # ".pdf"
               /\ pc[u] # "u_validate")
            => /\ pc[u] = "u_failed"
               /\ resp[u] = Response(400, <<"Only", "PDF", "files", "are", "allowed">>)
               /\ doc_id[u] = NoId /\ text[u] = NoText /\ texts[u] = -1
               /\ vector_store[u] = NoStore /\ ~called[u])
    /\ [][\A u \in Req : (pc[u] = "u_validate" /\ pc'[u] = "u_failed")
            => (files' = files /\ issued' = issued
                  /\ document_stores' = document_stores)]_vars

\* an upload named doc.pdf.exe was rejected
C5_Witness ==
    \E u \in Req : pc[u] = "u_failed" /\ filename[u] = <<"doc", ".pdf", ".exe">>

\* C6: registering under an id that is already a key of document_stores
\* fails (a 500-class conflict) and leaves the registry unchanged.
C6_ConflictRejected ==
    [][\A u \in Req :
         (pc[u] = "u_register" /\ pc'[u] # "u_register"
            /\ doc_id[u] \in DOMAIN document_stores)
         => /\ document_stores' = document_stores
            /\ pc'[u] = "u_failed"
            /\ resp'[u].status_code = 500]_vars

\* C7: no step of an ask request changes document_stores.
C7_AskReadOnly ==
    [][\A a \in Req : (pc'[a] # pc[a] /\ pc'[a] \in AskPositions)
         => document_stores' = document_stores]_vars

\* an ask on a registered document succeeded with at least one hit
C7_Witness ==
    \E a \in Req :
        /\ pc[a] = "a_done" /\ resp[a].status_code = 200 /\ resp[a].hits >= 1
        /\ doc_id[a] \in DOMAIN document_stores

\* C8: every failure of the embedding capability, in an upload or in an
\* ask, is answered with status 503.
C8_EmbeddingFailure503 ==
    \A r \in Req : raised[r].context = "OpenAIError" => resp[r].status_code = 503

\* C9: the file of an upload is on disk from the save on and is never
\* removed: an upload past the save, or failed in extraction or index
\* build, has its file though its id is not registered, and every
\* registered id has a file.
C9_FilesKept ==
    /\ [](/\ DOMAIN document_stores \subseteq files
          /\ \A u \in Req :
               /\ pc[u] \in {"u_extract", "u_split", "u_build", "u_register", "u_done"}
                    => doc_id[u] \in files
               /\ (pc[u] = "u_failed" /\ raised[u].context \in {"FitzError", "IndexError", "OpenAIError"})
                    => (doc_id[u] \in files /\ doc_id[u] \notin DOMAIN document_stores))
    /\ [][files \subseteq files']_vars

\* an upload failed in the index build of an empty text; its file is kept
C9_Witness ==
    \E u \in Req :
        /\ pc[u] = "u_failed" /\ raised[u].context = "IndexError"
        /\ doc_id[u] \in files /\ doc_id[u] \notin DOMAIN document_stores

\* C10: every step keeps each registered id registered, with the index it
\* was registered with.
C10_RegistryOnlyGrows ==
    [][\A d \in DOMAIN document_stores :
         d \in DOMAIN document_stores' /\ document_stores'[d] = document_stores[d]]_vars

\* a second document was registered after a first one
C10_Witness ==
    Cardinality(DOMAIN document_stores) >= 2

====
